---- MODULE Spec2Model ----
(***************************************************************************)
(* A model of starrocks::vectorized::ChunkIterator                          *)
(* (be/src/storage/chunk_iterator.h): the three schema views of an         *)
(* iterator (base, dictionary-encoded, projected output) and the three     *)
(* get_next overloads with their default do_get_next implementations.      *)
(***************************************************************************)
EXTENDS Integers, Sequences, FiniteSets, TLC

\* ------------------------------------------------------------------ bounds

\* Largest number of fields of a base schema; column ids are 1..MaxFields.
MaxFields == 3

\* Largest number of init_encoded_schema calls made on one iterator.
MaxEncodeCalls == 2

\* Number of rows the data source behind the concrete iterator holds.
MaxRows == 2

\* Largest chunk-size target handed to the constructor.
MaxChunkSize == 2

\* Longest time one fetch is measured to take, in ticks of the timer.
MaxElapsed == 1

\* Largest value the profiling counter is followed to.
MaxCounter == 2

ColumnIds == 1..MaxFields

\* The logical type of the column with id cid in the modelled table:
\* odd ids are string columns (dictionary-eligible), even ids are integers.
FieldType(cid) == IF cid % 2 = 1 THEN "VARCHAR" ELSE "INT"

\* The columns the planner can hold a global dictionary for: the string columns.
DictColumnIds == { cid \in ColumnIds : FieldType(cid) = "VARCHAR" }

\* A Field of the modelled table.
MkField(cid) == [id |-> cid, type |-> FieldType(cid)]

\* The base schemas: 1..MaxFields columns of the table, unique by id, selected
\* in table order or in reverse table order.
Schemas ==
    { s \in UNION { [1..n -> ColumnIds] : n \in 1..MaxFields } :
        \/ \A i, j \in DOMAIN s : i < j => s[i] < s[j]
        \/ \A i, j \in DOMAIN s : i < j => s[i] > s[j] }

\* The caller's null pointer.
NULL == "nullptr"

\* ------------------------------------------------------------------- state

VARIABLES
    _schema,                 \* ChunkIterator::_schema
    _encoded_schema,         \* ChunkIterator::_encoded_schema
    _output_schema,          \* ChunkIterator::_output_schema
    _is_init_output_schema,  \* ChunkIterator::_is_init_output_schema
    _chunk_size,             \* ChunkIterator::_chunk_size
    debug_build,             \* TRUE iff DCHECK / DCHECK_CHUNK are compiled in
    overrides,               \* do_get_next overloads the concrete iterator overrides
    pos,                     \* concrete iterator: rows of the source already returned
    closed,                  \* concrete iterator: close() has been called
    aborted,                 \* the process died on a failed check
    encode_calls,            \* number of init_encoded_schema calls made so far
    counter,                 \* the RuntimeProfile::Counter handed to timed_chunk_iterator
    last                     \* the last call: its arguments, path and results

vars == << _schema, _encoded_schema, _output_schema, _is_init_output_schema,
           _chunk_size, debug_build, overrides, pos, closed, aborted,
           encode_calls, counter, last >>

schema_vars == << _schema, _encoded_schema, _output_schema, _is_init_output_schema >>
iter_vars == << pos, closed >>
build_vars == << _chunk_size, debug_build, overrides >>

\* --------------------------------------------------------- schema helpers

\* Schema::num_fields()
num_fields(s) == Len(s)

\* The column ids of a schema, in field order.
ids(s) == [i \in 1..Len(s) |-> s[i].id]

\* Field::convert_to_dict_field: a copy of the field whose type is the
\* integer dictionary code.
convert_to_dict_field(field) == [field EXCEPT !.type = "INT"]

\* const Schema& schema() const
schema(base) == base

\* const Schema& encoded_schema() const
encoded_schema(base, enc) == IF num_fields(enc) = 0 THEN base ELSE enc

C3_Mutant_encode_field(field, dict_maps) == field

\* The body of the loop of init_encoded_schema: the field appended for `field`.
encode_field(field, dict_maps) ==
    IF field.id \in dict_maps THEN convert_to_dict_field(field) ELSE field

\* The loop of init_encoded_schema over schema().fields(), appending to enc.
RECURSIVE encode_loop(_, _, _)
encode_loop(fields, dict_maps, enc) ==
    IF fields = << >> THEN enc
    ELSE encode_loop(Tail(fields), dict_maps,
                     Append(enc, encode_field(Head(fields), dict_maps)))

C4_Mutant_init_encoded_schema(base, enc, dict_maps) ==
    enc \o SelectSeq(base, LAMBDA f : f.id \in dict_maps)

\* init_encoded_schema: the new value of _encoded_schema.
init_encoded_schema(base, enc, dict_maps) ==
    encode_loop(schema(base), dict_maps, enc)

C5_Mutant_output_loop(fields, unused, out) ==
    out \o [i \in 1..Len(fields) |-> fields[Len(fields) + 1 - i]]

RECURSIVE C14_Mutant_output_loop(_, _, _)
C14_Mutant_output_loop(fields, unused, out) ==
    IF fields = << >> THEN out
    ELSE C14_Mutant_output_loop(Tail(fields), unused,
                                IF Head(fields).id \notin unused
                                THEN << Head(fields) >> \o out ELSE out)

\* The loop of init_output_schema over encoded_schema().fields(), appending to out.
RECURSIVE output_loop(_, _, _)
output_loop(fields, unused_output_column_ids, out) ==
    IF fields = << >> THEN out
    ELSE output_loop(Tail(fields), unused_output_column_ids,
                     IF Head(fields).id \notin unused_output_column_ids
                     THEN Append(out, Head(fields)) ELSE out)

\* What an init_output_schema call leaves behind.
OutputResult(out, is_init, status, path, crash) ==
    [out |-> out, is_init |-> is_init, status |-> status, path |-> path,
     crash |-> crash]

C1_Mutant_init_output_schema(base, enc, out, is_init, debug, unused) ==
    LET built == output_loop(encoded_schema(base, enc), unused, out) IN
    IF debug /\ ~(num_fields(built) > 0)
    THEN OutputResult(built, is_init, "none", "check_failed", TRUE)
    ELSE OutputResult(built, TRUE, "OK", IF is_init THEN "noop" ELSE "built", FALSE)

C15_Mutant_init_output_schema(base, enc, out, is_init, debug, unused) ==
    LET built == output_loop(encoded_schema(base, enc), unused, << >>) IN
    IF debug /\ ~(num_fields(built) > 0)
    THEN OutputResult(built, is_init, "none", "check_failed", TRUE)
    ELSE OutputResult(built, TRUE, "OK", IF is_init THEN "noop" ELSE "built", FALSE)

\* init_output_schema: the early return once initialized; otherwise the loop,
\* DCHECK(_output_schema.num_fields() > 0) (fatal in a debug build, compiled
\* out of a release build), and the flag.
init_output_schema(base, enc, out, is_init, debug, unused_output_column_ids) ==
    IF is_init
    THEN OutputResult(out, is_init, "OK", "noop", FALSE)
    ELSE LET built == output_loop(encoded_schema(base, enc),
                                  unused_output_column_ids, out) IN
         IF debug /\ ~(num_fields(built) > 0)
         THEN OutputResult(built, is_init, "none", "check_failed", TRUE)
         ELSE OutputResult(built, TRUE, "OK", "built", FALSE)

C2_Mutant_output_schema(base, enc, out, is_init) ==
    IF is_init THEN out ELSE base

\* const Schema& output_schema() const
output_schema(base, enc, out, is_init) ==
    IF is_init THEN out ELSE encoded_schema(base, enc)

\* The schema views of the current state.
cur_schema == schema(_schema)
cur_encoded_schema == encoded_schema(_schema, _encoded_schema)
cur_output_schema ==
    output_schema(_schema, _encoded_schema, _output_schema, _is_init_output_schema)

\* No data source is consulted by a call that is not a fetch.
NoOracle == [kind |-> "none", n |-> 0, wf |-> TRUE]

\* The record of a call that is not a fetch.
SchemaCall(op, arg, path, status) ==
    [op |-> op, arg |-> arg, path |-> path, status |-> status,
     chunk_in |-> << >>, chunk_out |-> << >>, buf_in |-> NULL, buf_out |-> NULL,
     reached |-> << >>, pos_in |-> 0, closed_in |-> FALSE, oracle |-> NoOracle]

\* ------------------------------------------------------------------- init

\* The state after construction of an iterator over one of `schemas`, with a
\* chunk-size target of `sizes` and a concrete class overriding `ovs`.
InitWith(schemas, sizes, ovs) ==
    /\ _schema \in { [i \in DOMAIN s |-> MkField(s[i])] : s \in schemas }
    /\ _encoded_schema = << >>
    /\ _output_schema = << >>
    /\ _is_init_output_schema = FALSE
    /\ _chunk_size \in sizes
    /\ debug_build \in BOOLEAN
    /\ overrides \in ovs
    /\ pos = 0
    /\ closed = FALSE
    /\ aborted = FALSE
    /\ encode_calls = 0
    /\ counter = 0
    /\ last = SchemaCall("none", {}, "none", "none")

\* The table's own schema: every column, in id order.
FullSchema == [i \in 1..MaxFields |-> i]

\* Schema configuration: any base schema, one kind of concrete iterator.
InitSchema == InitWith(Schemas, {MaxChunkSize}, {{}})

\* Fetching: any kind of concrete iterator over the table's own schema.
InitFetch == InitWith({FullSchema}, 1..MaxChunkSize, SUBSET {"rowid", "masks"})

\* ---------------------------------------------------------- schema actions

C13_Mutant_InitEncodedSchema ==
    /\ ~aborted
    /\ encode_calls < MaxEncodeCalls
    /\ \E dict_maps \in SUBSET DictColumnIds :
        /\ _schema' = encode_loop(_schema, dict_maps, << >>)
        /\ _encoded_schema' = init_encoded_schema(_schema, _encoded_schema, dict_maps)
        /\ last' = SchemaCall("init_encoded_schema", dict_maps, "built", "OK")
    /\ encode_calls' = encode_calls + 1
    /\ UNCHANGED << _output_schema, _is_init_output_schema,
                    build_vars, iter_vars, aborted, counter >>

\* virtual Status init_encoded_schema(ColumnIdToGlobalDictMap& dict_maps)
InitEncodedSchema ==
    /\ ~aborted
    /\ encode_calls < MaxEncodeCalls
    /\ \E dict_maps \in SUBSET DictColumnIds :
        /\ _encoded_schema' = init_encoded_schema(_schema, _encoded_schema, dict_maps)
        /\ last' = SchemaCall("init_encoded_schema", dict_maps, "built", "OK")
    /\ encode_calls' = encode_calls + 1
    /\ UNCHANGED << _schema, _output_schema, _is_init_output_schema,
                    build_vars, iter_vars, aborted, counter >>

\* virtual Status init_output_schema(const std::unordered_set<uint32_t>&)
InitOutputSchema ==
    /\ ~aborted
    /\ \E unused \in SUBSET ColumnIds :
        LET r == init_output_schema(_schema, _encoded_schema, _output_schema,
                                    _is_init_output_schema, debug_build, unused) IN
        /\ _output_schema' = r.out
        /\ _is_init_output_schema' = r.is_init
        /\ aborted' = r.crash
        /\ last' = SchemaCall("init_output_schema", unused, r.path, r.status)
    /\ UNCHANGED << _schema, _encoded_schema, build_vars, iter_vars, encode_calls,
                    counter >>

SchemaNext == InitEncodedSchema \/ InitOutputSchema

SpecSchema == InitSchema /\ [][SchemaNext]_vars

\* ---------------------------------------------------------- fetch helpers

\* A Chunk: its rows (the ordinals of the source rows it holds) and whether
\* its columns are structurally sound (what Chunk::check_or_die tests).
MkChunk(rows, wf) == [rows |-> rows, well_formed |-> wf]

\* The chunks a caller hands in: an empty one (as the contract requires) and
\* one that already holds a row.
CallerChunks == { MkChunk(<< >>, TRUE), MkChunk(<< 0 >>, TRUE) }

\* A RowSourceMask: the source a row came from, and its discard flag.
Mask(row) == [source |-> row % 2, ignore |-> FALSE]

\* The row-id buffers a caller hands in: one that already holds an entry, so
\* that appending, overwriting and leaving alone differ.
RowidBufs == { << 0 >> }

\* The mask buffers a caller hands in: none, or one that already holds a mask.
MaskBufs == { NULL, << Mask(0) >> }

\* What the data source does in one fetch: deliver up to n rows, fail after n
\* rows (leaving the chunk sound or not), or crash (possible once closed).
Oracles ==
    [kind : {"data"}, n : 1..MaxChunkSize, wf : {TRUE}]
        \cup [kind : {"fail"}, n : 0..1, wf : BOOLEAN]
        \cup [kind : {"crash"}, n : {0}, wf : {TRUE}]

\* The iterator as a fetch sees it: the concrete iterator itself.
Iter(p, c) ==
    [pos |-> p, closed |-> c, chunk_size |-> _chunk_size,
     overrides |-> overrides, debug |-> debug_build, timed |-> FALSE]

\* The iterator timed_chunk_iterator returns for it.
timed_chunk_iterator(it) == [it EXCEPT !.timed = TRUE]

\* The iterator a timed iterator wraps.
inner(it) == [it EXCEPT !.timed = FALSE]

Min(a, b) == IF a < b THEN a ELSE b

\* The ordinals from + 1 .. from + k.
Ordinals(from, k) == [i \in 1..k |-> from + i]

\* The result of a do_get_next call.
Result(status, chunk, buf, p, crash, reached) ==
    [status |-> status, chunk |-> chunk, buf |-> buf, pos |-> p,
     crash |-> crash, reached |-> reached]

\* What a concrete iterator reads from its source in one fetch: the status,
\* the rows appended, and whether the chunk stays sound.  OK comes with at
\* least one row, EndOfFile with none; after a failure the chunk is unspecified.
Produce(it, o) ==
    IF o.kind = "crash"
    THEN [status |-> "none", new |-> << >>, wf |-> TRUE, crash |-> TRUE]
    ELSE IF o.kind = "fail"
    THEN [status |-> "IOError", new |-> [i \in 1..o.n |-> 0], wf |-> o.wf, crash |-> FALSE]
    ELSE IF it.pos = MaxRows
    THEN [status |-> "EndOfFile", new |-> << >>, wf |-> TRUE, crash |-> FALSE]
    ELSE [status |-> "OK",
          new |-> Ordinals(it.pos, Min(Min(o.n, it.chunk_size), MaxRows - it.pos)),
          wf |-> TRUE, crash |-> FALSE]

\* The position of the concrete iterator after a fetch.
Advance(it, pr) == IF pr.status = "OK" THEN it.pos + Len(pr.new) ELSE it.pos

\* The chunk after a fetch.
Fill(chunk, pr) == MkChunk(chunk.rows \o pr.new, chunk.well_formed /\ pr.wf)

\* do_get_next(Chunk* chunk) as a concrete iterator implements it.
concrete_do_get_next(it, chunk, o) ==
    LET pr == Produce(it, o) IN
    Result(pr.status, Fill(chunk, pr), NULL, Advance(it, pr), pr.crash,
           << "do_get_next(chunk)" >>)

\* A concrete iterator's override of do_get_next(Chunk*, vector<uint32_t>*).
override_do_get_next_rowid(it, chunk, rowid, o) ==
    LET pr == Produce(it, o) IN
    Result(pr.status, Fill(chunk, pr),
           IF pr.status = "OK" THEN rowid \o pr.new ELSE rowid,
           Advance(it, pr), pr.crash, << "do_get_next(chunk,rowid)" >>)

\* A merge iterator's override of do_get_next(Chunk*, vector<RowSourceMask>*).
override_do_get_next_masks(it, chunk, source_masks, o) ==
    LET pr == Produce(it, o) IN
    Result(pr.status, Fill(chunk, pr),
           IF pr.status = "OK" /\ source_masks # NULL
           THEN source_masks \o [i \in 1..Len(pr.new) |-> Mask(pr.new[i])]
           ELSE source_masks,
           Advance(it, pr), pr.crash, << "do_get_next(chunk,masks)" >>)

RECURSIVE get_next(_, _, _)
RECURSIVE get_next_rowid(_, _, _, _)
RECURSIVE get_next_masks(_, _, _, _)

\* The timed iterator's overrides of the three do_get_next overloads: each
\* is the wrapped iterator's get_next overload, with its status, chunk and
\* buffer handed back as they come (the time taken goes to the counter).
timed_do_get_next(it, chunk, o) == get_next(inner(it), chunk, o)
timed_do_get_next_rowid(it, chunk, rowid, o) ==
    get_next_rowid(inner(it), chunk, rowid, o)
timed_do_get_next_masks(it, chunk, source_masks, o) ==
    get_next_masks(inner(it), chunk, source_masks, o)

\* virtual Status do_get_next(Chunk* chunk) = 0: virtual dispatch.
do_get_next(it, chunk, o) ==
    IF it.timed
    THEN timed_do_get_next(it, chunk, o)
    ELSE concrete_do_get_next(it, chunk, o)

C7_Mutant_default_do_get_next_rowid(it, chunk, rowid, o) ==
    LET r == do_get_next(it, chunk, o) IN
    [r EXCEPT !.buf = rowid, !.reached = << "do_get_next(chunk,rowid)" >> \o r.reached]

\* ChunkIterator::do_get_next(Chunk*, vector<uint32_t>*): the default.
default_do_get_next_rowid(it, chunk, rowid, o) ==
    Result("NotSupported", chunk, rowid, it.pos, FALSE, << "do_get_next(chunk,rowid)" >>)

C8_Mutant_default_do_get_next_masks(it, chunk, source_masks, o) ==
    LET r == do_get_next(it, chunk, o) IN
    [r EXCEPT !.buf = source_masks,
              !.reached = << "do_get_next(chunk,masks)" >> \o r.reached]

\* ChunkIterator::do_get_next(Chunk*, std::vector<RowSourceMask>*): the default.
default_do_get_next_masks(it, chunk, source_masks, o) ==
    IF source_masks = NULL
    THEN LET r == do_get_next(it, chunk, o) IN
         [r EXCEPT !.buf = source_masks,
                   !.reached = << "do_get_next(chunk,masks)" >> \o r.reached]
    ELSE Result("NotSupported", chunk, source_masks, it.pos, FALSE,
                << "do_get_next(chunk,masks)" >>)

\* Virtual dispatch of do_get_next(chunk, rowid).
do_get_next_rowid(it, chunk, rowid, o) ==
    IF it.timed
    THEN timed_do_get_next_rowid(it, chunk, rowid, o)
    ELSE IF "rowid" \in it.overrides
    THEN override_do_get_next_rowid(it, chunk, rowid, o)
    ELSE default_do_get_next_rowid(it, chunk, rowid, o)

\* Virtual dispatch of do_get_next(chunk, source_masks).
do_get_next_masks(it, chunk, source_masks, o) ==
    IF it.timed
    THEN timed_do_get_next_masks(it, chunk, source_masks, o)
    ELSE IF "masks" \in it.overrides
    THEN override_do_get_next_masks(it, chunk, source_masks, o)
    ELSE default_do_get_next_masks(it, chunk, source_masks, o)

\* DCHECK_CHUNK(chunk): in a debug build the process dies on an unsound chunk;
\* in a release build the check is compiled out.  The status is returned as is.
DCHECK_CHUNK(it, st) ==
    IF ~st.crash /\ it.debug /\ ~st.chunk.well_formed
    THEN [st EXCEPT !.crash = TRUE]
    ELSE st

C12_Mutant_get_next(it, chunk, o) ==
    LET st == do_get_next(it, chunk, o) IN
    IF st.status = "OK" /\ ~st.crash
    THEN LET more == do_get_next([it EXCEPT !.pos = st.pos], st.chunk, o) IN
         DCHECK_CHUNK(it, [more EXCEPT !.status = st.status,
                                       !.reached = st.reached \o more.reached])
    ELSE DCHECK_CHUNK(it, st)

C9_Mutant_get_next(it, chunk, o) ==
    LET st == do_get_next(it, chunk, o) IN
    DCHECK_CHUNK(it, [st EXCEPT !.status = IF @ = "EndOfFile" THEN "OK" ELSE @])

C10_Mutant_get_next(it, chunk, o) ==
    IF it.closed
    THEN Result("none", chunk, NULL, it.pos, TRUE, << >>)
    ELSE DCHECK_CHUNK(it, do_get_next(it, chunk, o))

\* Status get_next(Chunk* chunk)
get_next(it, chunk, o) ==
    LET st == do_get_next(it, chunk, o) IN DCHECK_CHUNK(it, st)

C16_Mutant_get_next_rowid(it, chunk, rowid, o) ==
    LET st == do_get_next_rowid(it, chunk, rowid, o) IN
    IF st.status = "NotSupported"
    THEN LET again == do_get_next(it, chunk, o) IN
         DCHECK_CHUNK(it, [again EXCEPT !.buf = rowid,
                                        !.reached = st.reached \o again.reached])
    ELSE DCHECK_CHUNK(it, st)

\* Status get_next(Chunk* chunk, vector<uint32_t>* rowid)
get_next_rowid(it, chunk, rowid, o) ==
    LET st == do_get_next_rowid(it, chunk, rowid, o) IN DCHECK_CHUNK(it, st)

C11_Mutant_get_next_masks(it, chunk, source_masks, o) ==
    LET st == do_get_next(it, chunk, o) IN
    DCHECK_CHUNK(it, [st EXCEPT !.buf = source_masks])

\* Status get_next(Chunk* chunk, std::vector<RowSourceMask>* source_masks)
get_next_masks(it, chunk, source_masks, o) ==
    LET st == do_get_next_masks(it, chunk, source_masks, o) IN DCHECK_CHUNK(it, st)

\* The record of a fetch and the status its caller sees ("none": the process died).
FetchCall(op, chunk, buf, o, r) ==
    [op |-> op, arg |-> {}, path |-> "fetch",
     status |-> IF r.crash THEN "none" ELSE r.status,
     chunk_in |-> chunk, chunk_out |-> r.chunk, buf_in |-> buf, buf_out |-> r.buf,
     reached |-> r.reached, pos_in |-> pos, closed_in |-> closed, oracle |-> o]

\* The oracles of a fetch in the current state: a crash inside the concrete
\* iterator is an outcome of fetching after close() only.
CurOracles == { o \in Oracles : o.kind = "crash" => closed }

\* The effect of a fetch with result r.
Fetched(op, chunk, buf, o, r) ==
    /\ pos' = r.pos
    /\ aborted' = r.crash
    /\ last' = FetchCall(op, chunk, buf, o, r)
    /\ UNCHANGED << schema_vars, build_vars, closed, encode_calls >>

\* A fetch made directly on the concrete iterator.
FetchedDirectly(op, chunk, buf, o, r) ==
    /\ Fetched(op, chunk, buf, o, r)
    /\ UNCHANGED counter

\* A fetch made through the timed iterator, which took `elapsed`.
FetchedTimed(op, chunk, buf, o, r, elapsed) ==
    /\ Fetched(op, chunk, buf, o, r)
    /\ counter + elapsed <= MaxCounter
    /\ counter' = counter + elapsed

\* ----------------------------------------------------------- fetch actions

GetNext ==
    /\ ~aborted
    /\ \E chunk \in CallerChunks, o \in CurOracles :
        FetchedDirectly("get_next", chunk, NULL, o, get_next(Iter(pos, closed), chunk, o))

GetNextRowid ==
    /\ ~aborted
    /\ \E chunk \in CallerChunks, rowid \in RowidBufs, o \in CurOracles :
        FetchedDirectly("get_next_rowid", chunk, rowid, o,
                get_next_rowid(Iter(pos, closed), chunk, rowid, o))

GetNextMasks ==
    /\ ~aborted
    /\ \E chunk \in CallerChunks, source_masks \in MaskBufs, o \in CurOracles :
        FetchedDirectly("get_next_masks", chunk, source_masks, o,
                get_next_masks(Iter(pos, closed), chunk, source_masks, o))

\* virtual void close() = 0, called at most once.
Close ==
    /\ ~aborted
    /\ ~closed
    /\ closed' = TRUE
    /\ last' = SchemaCall("close", {}, "closed", "none")
    /\ UNCHANGED << schema_vars, build_vars, pos, aborted, encode_calls, counter >>

FetchNext == GetNext \/ GetNextRowid \/ GetNextMasks \/ Close

SpecFetch == InitFetch /\ [][FetchNext]_vars

\* ----------------------------------------------------------- timed actions

\* get_next(chunk) on the iterator timed_chunk_iterator returned.
TimedGetNext ==
    /\ ~aborted
    /\ \E chunk \in CallerChunks, o \in CurOracles, elapsed \in 0..MaxElapsed :
        FetchedTimed("timed_get_next", chunk, NULL, o,
                     get_next(timed_chunk_iterator(Iter(pos, closed)), chunk, o),
                     elapsed)

\* get_next(chunk, rowid) on the iterator timed_chunk_iterator returned.
TimedGetNextRowid ==
    /\ ~aborted
    /\ \E chunk \in CallerChunks, rowid \in RowidBufs, o \in CurOracles,
          elapsed \in 0..MaxElapsed :
        FetchedTimed("timed_get_next_rowid", chunk, rowid, o,
                     get_next_rowid(timed_chunk_iterator(Iter(pos, closed)),
                                    chunk, rowid, o),
                     elapsed)

\* get_next(chunk, source_masks) on the iterator timed_chunk_iterator returned.
TimedGetNextMasks ==
    /\ ~aborted
    /\ \E chunk \in CallerChunks, source_masks \in MaskBufs, o \in CurOracles,
          elapsed \in 0..MaxElapsed :
        FetchedTimed("timed_get_next_masks", chunk, source_masks, o,
                     get_next_masks(timed_chunk_iterator(Iter(pos, closed)),
                                    chunk, source_masks, o),
                     elapsed)

TimedNext == TimedGetNext \/ TimedGetNextRowid \/ TimedGetNextMasks \/ Close

\* Any kind of concrete iterator over the table's own schema, with the
\* largest chunk-size target, wrapped by timed_chunk_iterator.
InitTimed == InitWith({FullSchema}, {MaxChunkSize}, SUBSET {"rowid", "masks"})

\* Fetching through the timed iterator.
SpecTimed == InitTimed /\ [][TimedNext]_vars

\* The whole interface: schema configuration and fetches in any order, on an
\* iterator over the table's first column that overrides no overload.
Init == InitWith({<< 1 >>}, {MaxChunkSize}, {{}})

Next ==
    \/ InitEncodedSchema
    \/ InitOutputSchema
    \/ GetNext
    \/ GetNextRowid
    \/ GetNextMasks
    \/ Close

Spec == Init /\ [][Next]_vars


\* ------------------------------------------------------------------ claims

FetchOps == { "get_next", "get_next_rowid", "get_next_masks" }

\* The fields of s whose id is not in unused, in the order of s.
Surviving(s, unused) == SelectSeq(s, LAMBDA f : f.id \notin unused)

\* k copies of the sequence s, one after the other.
RECURSIVE Copies(_, _)
Copies(s, k) == IF k = 0 THEN << >> ELSE s \o Copies(s, k - 1)

\* C1: once the projection is initialized, an init_output_schema call with any
\* argument returns OK and leaves output_schema() exactly as it was.
C1_InitOutputSchemaIdempotent ==
    [][ (_is_init_output_schema /\ last'.op = "init_output_schema")
            => /\ last'.status = "OK"
               /\ cur_output_schema' = cur_output_schema
               /\ _is_init_output_schema' ]_vars

\* C1 witness: a second call whose argument would have given another projection.
C1_Witness ==
    /\ last.op = "init_output_schema"
    /\ last.path = "noop"
    /\ Surviving(cur_encoded_schema, last.arg) # cur_output_schema

\* C2: output_schema() is the output schema if the projection is initialized,
\* otherwise the encoded schema if it has a field, otherwise the base schema.
C2_OutputSchemaFallback ==
    cur_output_schema =
        IF _is_init_output_schema THEN _output_schema
        ELSE IF Len(_encoded_schema) >= 1 THEN _encoded_schema
        ELSE _schema

\* C2 witness: the middle tier, with an encoded schema that is not the base one.
C2_Witness ==
    /\ ~_is_init_output_schema
    /\ Len(_encoded_schema) >= 1
    /\ _encoded_schema # _schema
    /\ cur_output_schema = _encoded_schema

\* C3: after the first init_encoded_schema(dict_maps), the encoded schema has
\* the base schema's field count and order; position i holds the dict form of
\* base field i if its id is a key of dict_maps and base field i otherwise; an
\* empty dict_maps gives the base schema.
C3_FirstEncodeIsFieldwise ==
    (last.op = "init_encoded_schema" /\ encode_calls = 1)
        => /\ Len(cur_encoded_schema) = Len(cur_schema)
           /\ \A i \in 1..Len(cur_schema) :
                cur_encoded_schema[i] =
                    IF cur_schema[i].id \in last.arg
                    THEN convert_to_dict_field(cur_schema[i])
                    ELSE cur_schema[i]
           /\ (last.arg = {} => cur_encoded_schema = cur_schema)

\* C3 witness: a first call that rewrites one field and passes another through.
C3_Witness ==
    /\ last.op = "init_encoded_schema"
    /\ encode_calls = 1
    /\ \E i, j \in 1..Len(cur_schema) :
        /\ cur_schema[i].id \in last.arg
        /\ cur_encoded_schema[i] # cur_schema[i]
        /\ cur_schema[j].id \notin last.arg
        /\ cur_encoded_schema[j] = cur_schema[j]

\* C4 as stated: in every reachable state encoded_schema() has the field
\* count of schema() and its column ids in the order of schema().
C4_Original ==
    /\ Len(cur_encoded_schema) = Len(cur_schema)
    /\ ids(cur_encoded_schema) = ids(cur_schema)

\* C4 amended: while init_encoded_schema has been called at most once,
\* encoded_schema() has the field count and column-id order of schema(); every
\* further call appends one more copy of the base schema's column ids.
C4_EncodedIdsAreCopiesOfBase ==
    /\ encode_calls <= 1 =>
        /\ Len(cur_encoded_schema) = Len(cur_schema)
        /\ ids(cur_encoded_schema) = ids(cur_schema)
    /\ encode_calls >= 1 =>
        ids(cur_encoded_schema) = Copies(ids(cur_schema), encode_calls)

\* C4 witness: both initializers have run, one encoding call, a rewritten field.
C4_Witness ==
    /\ encode_calls = 1
    /\ _is_init_output_schema
    /\ cur_encoded_schema # cur_schema
    /\ ids(cur_encoded_schema) = ids(cur_schema)

\* C5: the first init_output_schema(unused) sets the output schema to exactly
\* the fields of encoded_schema() whose id is not in unused, in their order.
C5_FirstOutputIsSurvivors ==
    (last.op = "init_output_schema" /\ last.path # "noop")
        => _output_schema = Surviving(cur_encoded_schema, last.arg)

\* C5 witness: a first call that drops a field and keeps two.
C5_Witness ==
    /\ last.op = "init_output_schema"
    /\ last.path = "built"
    /\ Len(_output_schema) >= 2
    /\ Len(_output_schema) < Len(cur_encoded_schema)

\* C6 as stated: an init_output_schema whose unused ids cover the encoded
\* schema never returns OK, and an initialized projection has a field.
C6_Original ==
    /\ _is_init_output_schema => Len(cur_output_schema) >= 1
    /\ (/\ last.op = "init_output_schema"
        /\ last.path # "noop"
        /\ Surviving(cur_encoded_schema, last.arg) = << >>)
            => last.status # "OK"

\* C7: without an override, get_next(chunk, rowid) returns NotSupported, never
\* invokes do_get_next(chunk), and appends to neither chunk nor rowid.
C7_DefaultRowidNotSupported ==
    (last.op = "get_next_rowid" /\ "rowid" \notin overrides)
        => /\ last.status = "NotSupported"
           /\ last.reached = << "do_get_next(chunk,rowid)" >>
           /\ last.chunk_out = last.chunk_in
           /\ last.buf_out = last.buf_in
           /\ pos = last.pos_in

\* C7 witness: the default overload called on a source that still has rows.
C7_Witness ==
    /\ last.op = "get_next_rowid"
    /\ "rowid" \notin overrides
    /\ last.oracle.kind = "data"
    /\ last.pos_in < MaxRows
    /\ last.status = "NotSupported"

\* C8: without an override, get_next(chunk, masks) with no mask buffer gives
\* the status and chunk of the plain get_next from the same state, invoking
\* the plain do_get_next once; with a buffer it returns NotSupported, does
\* not advance, and writes to neither chunk nor buffer.
C8_DefaultMasked ==
    (last.op = "get_next_masks" /\ "masks" \notin overrides)
        => IF last.buf_in = NULL
           THEN LET plain == get_next(Iter(last.pos_in, last.closed_in),
                                      last.chunk_in, last.oracle) IN
                /\ last.status = (IF plain.crash THEN "none" ELSE plain.status)
                /\ last.chunk_out = plain.chunk
                /\ pos = plain.pos
                /\ last.reached = << "do_get_next(chunk,masks)", "do_get_next(chunk)" >>
           ELSE /\ last.status = "NotSupported"
                /\ pos = last.pos_in
                /\ last.chunk_out = last.chunk_in
                /\ last.buf_out = last.buf_in
                /\ last.reached = << "do_get_next(chunk,masks)" >>

\* C8 witness: both cases are decided by the buffer alone; here the rejected
\* one, on a source that had rows to give.
C8_Witness ==
    /\ last.op = "get_next_masks"
    /\ "masks" \notin overrides
    /\ last.buf_in # NULL
    /\ last.oracle.kind = "data"
    /\ last.pos_in < MaxRows
    /\ last.status = "NotSupported"

Overload(op) ==
    CASE op = "get_next" -> "do_get_next(chunk)"
      [] op = "get_next_rowid" -> "do_get_next(chunk,rowid)"
      [] op = "get_next_masks" -> "do_get_next(chunk,masks)"

\* C10 as stated: a fetch after close() reaches no do_get_next and returns
\* no status to its caller.
C10_Original ==
    (last.op \in FetchOps /\ last.closed_in)
        => /\ last.reached = << >>
           /\ last.status = "none"

\* C10 amended: get_next makes no check for close(): a fetch after close()
\* still invokes its do_get_next overload, the default overloads answer
\* NotSupported as before, and a status is returned whenever the concrete
\* iterator returns one and the chunk passes DCHECK_CHUNK.
C10_FetchAfterCloseIsForwarded ==
    (last.op \in FetchOps /\ last.closed_in)
        => /\ Len(last.reached) >= 1
           /\ Head(last.reached) = Overload(last.op)
           /\ (last.op = "get_next_rowid" /\ "rowid" \notin overrides)
                => last.status = "NotSupported"
           /\ (last.op = "get_next_masks" /\ "masks" \notin overrides
                    /\ last.buf_in # NULL)
                => last.status = "NotSupported"
           /\ (last.oracle.kind # "crash"
                    /\ (debug_build => last.chunk_out.well_formed))
                => last.status # "none"

\* C10 witness: a plain fetch after close() that came back with a status.
C10_Witness ==
    /\ last.op = "get_next"
    /\ last.closed_in
    /\ last.reached = << "do_get_next(chunk)" >>
    /\ last.status # "none"

\* The rows a fetch appended to the caller's chunk.
NewRows(call) ==
    SubSeq(call.chunk_out.rows, Len(call.chunk_in.rows) + 1, Len(call.chunk_out.rows))

RawResult(call) ==
    LET it == Iter(call.pos_in, call.closed_in) IN
    CASE call.op = "get_next" -> do_get_next(it, call.chunk_in, call.oracle)
      [] call.op = "get_next_rowid" ->
            do_get_next_rowid(it, call.chunk_in, call.buf_in, call.oracle)
      [] call.op = "get_next_masks" ->
            do_get_next_masks(it, call.chunk_in, call.buf_in, call.oracle)

\* C16: each get_next overload invokes its do_get_next overload exactly once
\* and returns that call's status; DCHECK_CHUNK changes neither the status
\* returned, nor the chunk, nor the iterator, and a release build always
\* returns the status.
C16_GetNextForwardsOnce ==
    last.op \in FetchOps
        => LET raw == RawResult(last) IN
           /\ Head(last.reached) = Overload(last.op)
           /\ Cardinality({ i \in DOMAIN last.reached :
                              last.reached[i] = Overload(last.op) }) = 1
           /\ last.reached = raw.reached
           /\ last.status # "none" => last.status = raw.status
           /\ last.chunk_out = raw.chunk
           /\ last.buf_out = raw.buf
           /\ pos = raw.pos
           /\ (~debug_build /\ ~raw.crash) => last.status = raw.status

\* C16 witness: a release build hands back a failure and its unsound chunk.
C16_Witness ==
    /\ last.op = "get_next"
    /\ ~debug_build
    /\ last.status = "IOError"
    /\ ~last.chunk_out.well_formed

\* C13: no operation changes what schema() returns.
C13_BaseSchemaNeverMutates ==
    [][cur_schema' = cur_schema]_vars

\* C13 witness: both initializers and a fetch have run, and the encoded
\* schema differs from the base schema.
C13_Witness ==
    /\ encode_calls >= 1
    /\ _is_init_output_schema
    /\ last.op \in FetchOps
    /\ cur_encoded_schema # cur_schema

\* a is b with some elements left out.
RECURSIVE IsSubseq(_, _)
IsSubseq(a, b) ==
    IF a = << >> THEN TRUE
    ELSE IF b = << >> THEN FALSE
    ELSE IF Head(a) = Head(b) THEN IsSubseq(Tail(a), Tail(b))
    ELSE IsSubseq(a, Tail(b))

\* The fields of a schema, as a set.
Fields(s) == { s[i] : i \in 1..Len(s) }

\* C14 as stated: whatever the order of the calls, an initialized
\* output_schema() is a field-for-field subsequence of encoded_schema().
C14_Original ==
    _is_init_output_schema => IsSubseq(cur_output_schema, cur_encoded_schema)

\* C14 amended: the column ids of an initialized output_schema() are an
\* order-preserving subsequence of those of encoded_schema(), and each output
\* field is a field of encoded_schema() or the unencoded base field of its
\* column; right after the init_output_schema call that built it,
\* output_schema() is a field-for-field subsequence of encoded_schema().
C14_OutputIsSubsequenceById ==
    _is_init_output_schema
        => /\ IsSubseq(ids(cur_output_schema), ids(cur_encoded_schema))
           /\ Fields(cur_output_schema)
                \subseteq Fields(cur_encoded_schema) \cup Fields(cur_schema)
           /\ (last.op = "init_output_schema" /\ last.path = "built")
                => IsSubseq(cur_output_schema, cur_encoded_schema)

\* C14 witness: a projection of two fields built after an encoding that
\* rewrote one of them.
C14_Witness ==
    /\ _is_init_output_schema
    /\ last.op = "init_output_schema"
    /\ last.path = "built"
    /\ encode_calls >= 1
    /\ Len(cur_output_schema) >= 2
    /\ Len(cur_output_schema) < Len(cur_encoded_schema)
    /\ \E i \in 1..Len(cur_output_schema) :
        cur_output_schema[i] \notin Fields(cur_schema)

\* C15: once the projection is initialized, output_schema() never changes,
\* whatever call follows; until then output_schema() is encoded_schema().
C15_OutputSchemaWriteOnce ==
    /\ [](~_is_init_output_schema => cur_output_schema = cur_encoded_schema)
    /\ [][ _is_init_output_schema
             => /\ _is_init_output_schema'
                /\ cur_output_schema' = cur_output_schema ]_vars

\* C15 witness: an encoding call after the projection, which rewrote a field
\* the projection holds unencoded.
C15_Witness ==
    /\ _is_init_output_schema
    /\ last.op = "init_encoded_schema"
    /\ \E i \in 1..Len(cur_output_schema) :
        cur_output_schema[i] \notin Fields(cur_encoded_schema)

TimedOps == { "timed_get_next", "timed_get_next_rowid", "timed_get_next_masks" }

\* What the wrapped iterator returns for the fetch of a timed call when it is
\* called directly, from the same state, with the same chunk and buffer.
DirectResult(call) ==
    LET it == Iter(call.pos_in, call.closed_in) IN
    CASE call.op = "timed_get_next" -> get_next(it, call.chunk_in, call.oracle)
      [] call.op = "timed_get_next_rowid" ->
            get_next_rowid(it, call.chunk_in, call.buf_in, call.oracle)
      [] call.op = "timed_get_next_masks" ->
            get_next_masks(it, call.chunk_in, call.buf_in, call.oracle)

====
